---- MODULE Spec2Model ----
(***************************************************************************)
(* The 1-Wire configuration wizards of                                     *)
(* homeassistant/components/onewire/config_flow.py:                        *)
(*   - OneWireFlowHandler        (setup wizard, several concurrent flows)  *)
(*   - OnewireOptionsFlowHandler (options wizard, one session)             *)
(* Python dicts are functions whose DOMAIN is the set of keys present.     *)
(* Python strings that are parsed (device labels) are sequences of         *)
(* one-character strings; the others are TLA+ strings.                     *)
(***************************************************************************)
EXTENDS Integers, Sequences, FiniteSets, TLC

\* ---------------------------------------------------------------- constants
CONF_TYPE == "type"
CONF_HOST == "host"
CONF_PORT == "port"
CONF_MOUNT_DIR == "mount_dir"
CONF_TYPE_OWSERVER == "OWServer"
CONF_TYPE_SYSBUS == "SysBus"
DEFAULT_OWSERVER_HOST == "localhost"
DEFAULT_OWSERVER_PORT == 4304
DEFAULT_SYSBUS_MOUNT_DIR == "/sys/bus/w1/devices/"

\* ------------------------------------------------------------------- bounds
\* Number of setup flows that may be in progress at the same time.
NumFlows == 2
Flows == 1..NumFlows
\* Values a user may type into the forms.
Hosts == {DEFAULT_OWSERVER_HOST, "gateway2"}
Ports == {DEFAULT_OWSERVER_PORT, 4305}
MountDirs == {DEFAULT_SYSBUS_MOUNT_DIR, "/mnt/1wire/"}

\* ------------------------------------------------------------ dict helpers
EmptyDict == [k \in {} |-> k]

\* dict.update(other): keys of other win.
DictUpdate(d, other) ==
    [k \in (DOMAIN d) \cup (DOMAIN other) |->
        IF k \in DOMAIN other THEN other[k] ELSE d[k]]

\* An optional step argument: Python's `user_input: dict | None`.
None == [given |-> FALSE, data |-> EmptyDict]
Some(d) == [given |-> TRUE, data |-> d]

\* Truthiness of `if user_input:` (None and the empty dict are falsy).
Truthy(user_input) == user_input.given /\ DOMAIN user_input.data # {}

NoUniqueId == <<>>

VARIABLES
    \* ---- configuration entries persisted by the host (all sessions)
    entries,
    \* ---- OneWireFlowHandler, one instance per flow
    pc,             \* where the flow is: the form it shows, or suspended in a hub call
    onewire_config, \* self.onewire_config
    unique_id,      \* the flow's unique id (context of the flow)
    step_input,     \* user_input of the step suspended in a hub call
    result,         \* the FlowResult the last step returned
    hub_calls,      \* hub operations the flow's current step has issued
    \* ---- observation of the run (not program state)
    transport,      \* the transport submitted at the "user" step
    submitted,      \* the last transport-specific form submission of the flow
    dup_at_submit,  \* an identical record was persisted when it was submitted
    hub_failed,     \* the hub operation of the last submission failed
    last_failed,    \* the last submission of the flow whose hub operation failed
    \* ---- the options of the configuration entry, as the host holds them
    config_entry_options,
    \* ---- the hub and the device registry (read only)
    hub_devices,    \* self.controller.devices
    name_by_user,   \* device id -> name the user gave it (<<>>: none)
    device_registry, \* dr.async_get hands out a registry (FALSE: None)
    \* ---- OnewireOptionsFlowHandler (one session)
    opt_pc,         \* the form the session shows, "init" before, "done" after
    options,        \* self.options
    precision_shared, \* options["sensor_precision"] is the very dict object
                    \* held by config_entry_options["sensor_precision"]
    device_list_ds18b20,
    current_device,
    devices_to_configure_ds18b20,
    opt_result,     \* the FlowResult the last step returned
    \* ---- observation of the options session (not program state)
    initial_options,  \* config_entry_options when the session was created
    init_input,       \* the submission handed to the init step
    selection_input,  \* the submission of the device_selection form
    visited,          \* current_device of every device-config form rendered
    answers,          \* <<current_device, precision>> of every answer given
    committed_from,   \* the step that completed the session
    \* ---- the label helpers applied on their own
    label_pc,         \* "start", "named", "parsed", "error" ("idle" elsewhere)
    label_device,     \* the device id handed to _get_device_long_name_from_id
    label_name,       \* the label it returned
    label_id          \* what _get_device_id_from_long_name made of the label

flow_vars == <<entries, pc, onewire_config, unique_id, step_input, result, hub_calls>>
flow_obs == <<transport, submitted, dup_at_submit, hub_failed, last_failed>>
setup_vars == <<flow_vars, flow_obs>>

options_prog == <<config_entry_options, hub_devices, name_by_user,
                  device_registry, opt_pc, options,
                  precision_shared, device_list_ds18b20, current_device,
                  devices_to_configure_ds18b20, opt_result>>
options_obs == <<initial_options, init_input, selection_input, visited, answers,
                 committed_from>>
label_vars == <<label_pc, label_device, label_name, label_id>>
options_vars == <<options_prog, options_obs, label_vars>>

vars == <<setup_vars, options_vars>>

\* ------------------------------------------------------------ flow results
ShowForm(step_id, errors, schema_defaults) ==
    [type |-> "form", step_id |-> step_id, errors |-> errors,
     defaults |-> schema_defaults]

\* A completion that carries no title.
CreateEntry_untitled(title, data) ==
    [type |-> "create_entry", title |-> "", data |-> data]

CreateEntry(title, data) ==
    [type |-> "create_entry", title |-> title, data |-> data]

Abort(reason) == [type |-> "abort", reason |-> reason]

DATA_SCHEMA_USER == EmptyDict
DATA_SCHEMA_OWSERVER ==
    (CONF_HOST :> DEFAULT_OWSERVER_HOST) @@ (CONF_PORT :> DEFAULT_OWSERVER_PORT)
DATA_SCHEMA_MOUNTDIR == (CONF_MOUNT_DIR :> DEFAULT_SYSBUS_MOUNT_DIR)

\* Submissions the schemas accept.
UserInputsUser == {(CONF_TYPE :> t) : t \in {CONF_TYPE_OWSERVER, CONF_TYPE_SYSBUS}}
UserInputsOwserver == {(CONF_HOST :> h) @@ (CONF_PORT :> p) : h \in Hosts, p \in Ports}
UserInputsMountDir == {(CONF_MOUNT_DIR :> m) : m \in MountDirs}

\* ------------------------------------------------- host (config entries)
\* ConfigFlow._async_abort_entries_match: some persisted entry holds every
\* item of match_dict in its data.
EntriesMatch(match_dict) ==
    \E i \in DOMAIN entries :
        \A k \in DOMAIN match_dict :
            k \in DOMAIN entries[i].data /\ entries[i].data[k] = match_dict[k]

\* ConfigFlow._abort_if_unique_id_configured: some persisted entry was
\* created under the same unique id.
UniqueIdConfigured(uid) ==
    \E i \in DOMAIN entries : entries[i].unique_id = uid

\* The host persists the record of a flow that finished with create_entry.
PersistEntry(f, title, data, uid) ==
    Append(entries, [title |-> title, data |-> data, unique_id |-> uid, flow |-> f])

\* ------------------------------------------------------ OneWireFlowHandler
Init_setup ==
    /\ entries = <<>>
    /\ pc = [f \in Flows |-> "init"]
    /\ onewire_config = [f \in Flows |-> EmptyDict]
    /\ unique_id = [f \in Flows |-> NoUniqueId]
    /\ step_input = [f \in Flows |-> EmptyDict]
    /\ result = [f \in Flows |-> Abort("not_started")]
    /\ hub_calls = [f \in Flows |-> 0]
    /\ transport = [f \in Flows |-> ""]
    /\ submitted = [f \in Flows |-> EmptyDict]
    /\ dup_at_submit = [f \in Flows |-> FALSE]
    /\ hub_failed = [f \in Flows |-> FALSE]
    /\ last_failed = [f \in Flows |-> EmptyDict]

\* The dict handed to _async_abort_entries_match.
owserver_match_dict_sysbus(user_input) ==
    (CONF_TYPE :> CONF_TYPE_SYSBUS)
        @@ (CONF_HOST :> user_input[CONF_HOST])
        @@ (CONF_PORT :> user_input[CONF_PORT])

owserver_match_dict(user_input) ==
    (CONF_TYPE :> CONF_TYPE_OWSERVER)
        @@ (CONF_HOST :> user_input[CONF_HOST])
        @@ (CONF_PORT :> user_input[CONF_PORT])

\* The unique id f"{CONF_TYPE_SYSBUS}:{mount_dir}".
sysbus_unique_id(user_input) == <<CONF_TYPE_SYSBUS, user_input[CONF_MOUNT_DIR]>>

\* self.onewire_config.update(user_input)
update_onewire_config_keep(config, user_input) == DictUpdate(user_input, config)

update_onewire_config(config, user_input) == DictUpdate(config, user_input)

\* The forms the transport steps return.
owserver_form_abort(errors) == Abort("cannot_connect")

owserver_form(errors) == ShowForm("owserver", errors, DATA_SCHEMA_OWSERVER)

mount_dir_form(errors) == ShowForm("mount_dir", errors, DATA_SCHEMA_MOUNTDIR)

\* errors["base"] of the two validation failures.
errors_cannot_connect_swapped == ("base" :> "invalid_path")

errors_cannot_connect == ("base" :> "cannot_connect")

errors_invalid_path == ("base" :> "invalid_path")

\* async_step_owserver up to the suspension in hub.connect; `config` is
\* self.onewire_config when the step is entered.
async_step_owserver(f, user_input, config) ==
    IF Truthy(user_input)
    THEN IF EntriesMatch(owserver_match_dict(user_input.data))
         THEN /\ pc' = [pc EXCEPT ![f] = "aborted"]
              /\ result' = [result EXCEPT ![f] = Abort("already_configured")]
              /\ onewire_config' = [onewire_config EXCEPT ![f] = config]
              /\ hub_calls' = [hub_calls EXCEPT ![f] = 0]
              /\ UNCHANGED <<entries, unique_id, step_input>>
         ELSE /\ onewire_config' = [onewire_config EXCEPT
                     ![f] = update_onewire_config(config, user_input.data)]
              /\ step_input' = [step_input EXCEPT ![f] = user_input.data]
              /\ hub_calls' = [hub_calls EXCEPT ![f] = 1]
              /\ pc' = [pc EXCEPT ![f] = "connect"]
              /\ UNCHANGED <<entries, unique_id, result>>
    ELSE /\ pc' = [pc EXCEPT ![f] = "owserver"]
         /\ result' = [result EXCEPT ![f] = owserver_form(EmptyDict)]
         /\ onewire_config' = [onewire_config EXCEPT ![f] = config]
         /\ hub_calls' = [hub_calls EXCEPT ![f] = 0]
         /\ UNCHANGED <<entries, unique_id, step_input>>

\* hub.connect returned (connected) or raised CannotConnect: the rest of
\* async_step_owserver.
validate_input_owserver_returns(f, connected) ==
    IF connected
    THEN /\ pc' = [pc EXCEPT ![f] = "done"]
         /\ result' = [result EXCEPT
                ![f] = CreateEntry(step_input[f][CONF_HOST], onewire_config[f])]
         /\ entries' = PersistEntry(f, step_input[f][CONF_HOST],
                                    onewire_config[f], unique_id[f])
         /\ UNCHANGED <<onewire_config, unique_id, step_input, hub_calls>>
    ELSE /\ pc' = [pc EXCEPT ![f] = "owserver"]
         /\ result' = [result EXCEPT ![f] = owserver_form(errors_cannot_connect)]
         /\ UNCHANGED <<entries, onewire_config, unique_id, step_input, hub_calls>>

\* async_step_mount_dir up to the suspension in hub.check_mount_dir.
async_step_mount_dir(f, user_input, config) ==
    IF Truthy(user_input)
    THEN /\ unique_id' = [unique_id EXCEPT ![f] = sysbus_unique_id(user_input.data)]
         /\ IF UniqueIdConfigured(sysbus_unique_id(user_input.data))
            THEN /\ pc' = [pc EXCEPT ![f] = "aborted"]
                 /\ result' = [result EXCEPT ![f] = Abort("already_configured")]
                 /\ onewire_config' = [onewire_config EXCEPT ![f] = config]
                 /\ hub_calls' = [hub_calls EXCEPT ![f] = 0]
                 /\ UNCHANGED <<entries, step_input>>
            ELSE /\ onewire_config' = [onewire_config EXCEPT
                        ![f] = update_onewire_config(config, user_input.data)]
                 /\ step_input' = [step_input EXCEPT ![f] = user_input.data]
                 /\ hub_calls' = [hub_calls EXCEPT ![f] = 1]
                 /\ pc' = [pc EXCEPT ![f] = "check_mount_dir"]
                 /\ UNCHANGED <<entries, result>>
    ELSE /\ pc' = [pc EXCEPT ![f] = "mount_dir"]
         /\ result' = [result EXCEPT ![f] = mount_dir_form(EmptyDict)]
         /\ onewire_config' = [onewire_config EXCEPT ![f] = config]
         /\ hub_calls' = [hub_calls EXCEPT ![f] = 0]
         /\ UNCHANGED <<entries, unique_id, step_input>>

\* hub.check_mount_dir returned (valid) or raised InvalidPath: the rest of
\* async_step_mount_dir.
validate_input_mount_dir_returns(f, valid) ==
    IF valid
    THEN /\ pc' = [pc EXCEPT ![f] = "done"]
         /\ result' = [result EXCEPT
                ![f] = CreateEntry(step_input[f][CONF_MOUNT_DIR], onewire_config[f])]
         /\ entries' = PersistEntry(f, step_input[f][CONF_MOUNT_DIR],
                                    onewire_config[f], unique_id[f])
         /\ UNCHANGED <<onewire_config, unique_id, step_input, hub_calls>>
    ELSE /\ pc' = [pc EXCEPT ![f] = "mount_dir"]
         /\ result' = [result EXCEPT ![f] = mount_dir_form(errors_invalid_path)]
         /\ UNCHANGED <<entries, onewire_config, unique_id, step_input, hub_calls>>

\* async_step_user: records the transport and enters its step.
async_step_user(f, user_input) ==
    IF user_input.given
    THEN LET config == update_onewire_config(onewire_config[f], user_input.data)
         IN  IF CONF_TYPE_OWSERVER = user_input.data[CONF_TYPE]
             THEN async_step_owserver(f, None, config)
             ELSE IF CONF_TYPE_SYSBUS = user_input.data[CONF_TYPE]
             THEN async_step_mount_dir(f, None, config)
             ELSE /\ pc' = [pc EXCEPT ![f] = "user"]
                  /\ result' = [result EXCEPT
                         ![f] = ShowForm("user", EmptyDict, DATA_SCHEMA_USER)]
                  /\ onewire_config' = [onewire_config EXCEPT ![f] = config]
                  /\ UNCHANGED <<entries, unique_id, step_input, hub_calls>>
    ELSE /\ pc' = [pc EXCEPT ![f] = "user"]
         /\ result' = [result EXCEPT
                ![f] = ShowForm("user", EmptyDict, DATA_SCHEMA_USER)]
         /\ UNCHANGED <<entries, onewire_config, unique_id, step_input, hub_calls>>

\* ---- observation of the run
\* A persisted record carries the same transport and transport-specific
\* fields as the submission `data` made for transport `type`.
IdenticalPersisted(type, data) ==
    \E i \in DOMAIN entries :
        /\ CONF_TYPE \in DOMAIN entries[i].data
        /\ entries[i].data[CONF_TYPE] = type
        /\ \A k \in DOMAIN data :
              k \in DOMAIN entries[i].data /\ entries[i].data[k] = data[k]

\* Flow f receives the submission `data` of its transport step.
ObserveSubmission(f, data) ==
    /\ submitted' = [submitted EXCEPT ![f] = data]
    /\ dup_at_submit' = [dup_at_submit EXCEPT
           ![f] = IdenticalPersisted(transport[f], data)]
    /\ hub_failed' = [hub_failed EXCEPT ![f] = FALSE]
    /\ UNCHANGED <<transport, last_failed>>

\* The hub operation of flow f's submission returns.
ObserveHub(f, ok) ==
    /\ hub_failed' = [hub_failed EXCEPT ![f] = ~ok]
    /\ last_failed' = IF ok THEN last_failed
                      ELSE [last_failed EXCEPT ![f] = submitted[f]]
    /\ UNCHANGED <<transport, submitted, dup_at_submit>>

\* ---- the host runs one step of one flow
\* A flow starts without data and shows the "user" form.
Start_user(f) ==
    /\ UNCHANGED options_vars
    /\ pc[f] = "init"
    /\ async_step_user(f, None)
    /\ UNCHANGED flow_obs

\* A flow starts with data, or the "user" form is answered.
HandleStep_user(f) ==
    /\ UNCHANGED options_vars
    /\ pc[f] \in {"init", "user"}
    /\ \E d \in UserInputsUser :
          /\ async_step_user(f, Some(d))
          /\ transport' = [transport EXCEPT ![f] = d[CONF_TYPE]]
    /\ UNCHANGED <<submitted, dup_at_submit, hub_failed, last_failed>>

HandleStep_owserver(f) ==
    /\ UNCHANGED options_vars
    /\ pc[f] = "owserver"
    /\ \E d \in UserInputsOwserver :
          /\ async_step_owserver(f, Some(d), onewire_config[f])
          /\ ObserveSubmission(f, d)

Resume_owserver(f) ==
    /\ UNCHANGED options_vars
    /\ pc[f] = "connect"
    /\ \E connected \in BOOLEAN :
          /\ validate_input_owserver_returns(f, connected)
          /\ ObserveHub(f, connected)

HandleStep_mount_dir(f) ==
    /\ UNCHANGED options_vars
    /\ pc[f] = "mount_dir"
    /\ \E d \in UserInputsMountDir :
          /\ async_step_mount_dir(f, Some(d), onewire_config[f])
          /\ ObserveSubmission(f, d)

Resume_mount_dir(f) ==
    /\ UNCHANGED options_vars
    /\ pc[f] = "check_mount_dir"
    /\ \E valid \in BOOLEAN :
          /\ validate_input_mount_dir_returns(f, valid)
          /\ ObserveHub(f, valid)

Next_setup ==
    \E f \in Flows :
        \/ Start_user(f)
        \/ HandleStep_user(f)
        \/ HandleStep_owserver(f)
        \/ Resume_owserver(f)
        \/ HandleStep_mount_dir(f)
        \/ Resume_mount_dir(f)

\* ============================================== OnewireOptionsFlowHandler
\* ------------------------------------------------------------------ bounds
\* Number of DS18B20 devices the hub reports.
NumDS18B20 == 2

CLEAR_DEVICE_CONFIG == "clear_device_config"
SENSOR_PRECISION_DEVICE_SELECT_OPTION == "ds18b20_device_selection"
SENSOR_PRECISION_CONFIG_OPTION == "sensor_precision"

\* The precision labels the device-config form accepts.
PrecisionLabels == {"Default", "9 Bits", "10 Bits", "11 Bits", "12 Bits"}

\* Device ids, as strings of characters.
DeviceIds == << <<"a">>, <<"b">>, <<"c">>, <<"d">> >>
DS18B20Ids == {DeviceIds[i] : i \in 1..NumDS18B20}
\* A DS18B20 configured in an earlier session and no longer on the bus.
StaleId == <<"s">>

\* What the hub may report: the DS18B20 devices and a device of another
\* type, or nothing.
HubDeviceLists ==
    { [i \in 1..NumDS18B20 |->
          [id |-> DeviceIds[i], type |-> "DS18B20", owserver |-> TRUE]]
        \o << [id |-> <<"h">>, type |-> "DS2438", owserver |-> TRUE] >>,
      <<>> }

\* Names a user may have given a device: none, a plain one, one with
\* parentheses.
UserNames == { <<>>, <<"K">>, <<"K", "(", "x", ")">> }

\* ---------------------------------------------------------- sequence helpers
Range(seq) == {seq[i] : i \in DOMAIN seq}
Last(seq) == seq[Len(seq)]
Front(seq) == SubSeq(seq, 1, Len(seq) - 1)
Contains(str, c) == \E i \in DOMAIN str : str[i] = c

\* str.split(c)
RECURSIVE Split(_, _)
Split(str, c) ==
    IF ~Contains(str, c)
    THEN <<str>>
    ELSE LET i == CHOOSE i \in DOMAIN str :
                      str[i] = c /\ \A j \in 1..(i - 1) : str[j] # c
         IN  <<SubSeq(str, 1, i - 1)>> \o Split(SubSeq(str, i + 1, Len(str)), c)

\* str.replace(c, "")
Remove(str, c) == SelectSeq(str, LAMBDA x : x # c)

\* Sequences without repetition over a set (what a multi-select submits).
Selections(S) ==
    {sel \in UNION {[1..n -> S] : n \in 0..Cardinality(S)} :
        \A i, j \in DOMAIN sel : i # j => sel[i] # sel[j]}

\* ------------------------------------------------------------- exceptions
\* The result of a step that raised instead of returning a FlowResult.
Raised(exception) == [type |-> "error", exception |-> exception]

\* What stands for the value of a call that raised UnboundLocalError.
UnboundLocalError == <<"UnboundLocalError">>

\* Some label of the list could not be computed.
Raises(labels) == \E i \in DOMAIN labels : labels[i] = UnboundLocalError

\* ------------------------------------------------------------- the helpers
\* Without a registry the local `device` is never bound, and the test of
\* `device` that follows the logging raises.
_get_device_long_name_from_id(device) ==
    IF ~device_registry
    THEN UnboundLocalError
    ELSE LET name == IF device \in DOMAIN name_by_user
                     THEN name_by_user[device] ELSE <<>>
         IN  IF name # <<>>
             THEN name \o <<" ", "(">> \o device \o <<")">>
             ELSE device

\* The label taken for the id as it is.
_get_device_id_from_long_name_bare(device_name) == device_name

_get_device_id_from_long_name(device_name) ==
    IF Contains(device_name, "(")
    THEN Remove(Split(device_name, "(")[2], ")")
    ELSE device_name

_get_device_list_with_names(possible_devices) ==
    [i \in DOMAIN possible_devices |->
        _get_device_long_name_from_id(possible_devices[i])]

_get_current_ds18b20_config_selection(opts, possible_devices) ==
    IF SENSOR_PRECISION_DEVICE_SELECT_OPTION \notin DOMAIN opts
    THEN <<>>
    ELSE SelectSeq(_get_device_list_with_names(possible_devices),
                   LAMBDA device :
                       _get_device_id_from_long_name(device)
                           \in Range(opts[SENSOR_PRECISION_DEVICE_SELECT_OPTION]))

\* `if sensor_precision_entry`: the key is present and its dict not empty.
HasPrecisionEntries(opts) ==
    /\ SENSOR_PRECISION_CONFIG_OPTION \in DOMAIN opts
    /\ DOMAIN opts[SENSOR_PRECISION_CONFIG_OPTION] # {}

\* The default of a device that has nothing stored, whatever is stored.
_get_default_ds18b20_config_option_none(opts, device) == "Default"

_get_default_ds18b20_config_option(opts, device) ==
    IF /\ HasPrecisionEntries(opts)
       /\ device \in DOMAIN opts[SENSOR_PRECISION_CONFIG_OPTION]
    THEN opts[SENSOR_PRECISION_CONFIG_OPTION][device]
    ELSE "Default"

\* The value of self.options after _update_ds18b20_config_option.
_update_ds18b20_config_option_fresh(opts, device, user_input) ==
    DictUpdate(opts, (SENSOR_PRECISION_CONFIG_OPTION :>
                         (device :> user_input[SENSOR_PRECISION_CONFIG_OPTION])))

_update_ds18b20_config_option(opts, device, user_input) ==
    LET sensor_precision_entry ==
            IF HasPrecisionEntries(opts)
            THEN DictUpdate(opts[SENSOR_PRECISION_CONFIG_OPTION],
                            (device :> user_input[SENSOR_PRECISION_CONFIG_OPTION]))
            ELSE (device :> user_input[SENSOR_PRECISION_CONFIG_OPTION])
    IN  DictUpdate(opts, (SENSOR_PRECISION_CONFIG_OPTION :> sensor_precision_entry))

\* The record replaced by the translated submission, not updated with it.
_update_options_dict_replace(opts, user_input) ==
    IF SENSOR_PRECISION_DEVICE_SELECT_OPTION \in DOMAIN user_input
    THEN [user_input EXCEPT ![SENSOR_PRECISION_DEVICE_SELECT_OPTION] =
             [i \in DOMAIN @ |-> _get_device_id_from_long_name(@[i])]]
    ELSE user_input

\* The value of self.options after _update_options_dict.
_update_options_dict(opts, user_input) ==
    LET translated ==
            IF SENSOR_PRECISION_DEVICE_SELECT_OPTION \in DOMAIN user_input
            THEN [user_input EXCEPT ![SENSOR_PRECISION_DEVICE_SELECT_OPTION] =
                     [i \in DOMAIN @ |-> _get_device_id_from_long_name(@[i])]]
            ELSE user_input
    IN  DictUpdate(opts, translated)

\* -------------------------------------------------------------- the forms
device_selection_form(opts, possible_devices) ==
    [type |-> "form", step_id |-> "device_selection",
     default_selection |->
         _get_current_ds18b20_config_selection(opts, possible_devices),
     choices |-> _get_device_list_with_names(possible_devices)]

ds1820b_device_config_form(opts, device) ==
    [type |-> "form", step_id |-> "ds1820b_device_config",
     default_precision |-> _get_default_ds18b20_config_option(opts, device),
     sens_id |-> _get_device_long_name_from_id(device)]

\* ------------------------------------------------------------- the steps
\* _update_options: the session completes with `opts`, which the host
\* writes to the configuration entry.
_update_options(opts) ==
    /\ opt_result' = CreateEntry("", opts)
    /\ config_entry_options' = opts
    /\ options' = opts
    /\ opt_pc' = "done"
    /\ UNCHANGED <<current_device, devices_to_configure_ds18b20>>

\* The device-config form for the first device of the list, not the last.
show_ds1820b_device_config_fifo(opts, todo) ==
    IF todo = <<>>
    THEN /\ opt_pc' = "error"
         /\ options' = opts
         /\ opt_result' = Raised("IndexError")
         /\ UNCHANGED <<current_device, devices_to_configure_ds18b20>>
    ELSE /\ current_device' = Head(todo)
         /\ devices_to_configure_ds18b20' = Tail(todo)
         /\ options' = opts
         /\ opt_result' = ds1820b_device_config_form(opts, Head(todo))
         /\ opt_pc' = "ds1820b_device_config"

\* async_step_ds1820b_device_config(user_input=None) entered with
\* self.options = opts and self.devices_to_configure_ds18b20 = todo.
show_ds1820b_device_config(opts, todo) ==
    IF todo = <<>>
    THEN \* list.pop() of an empty list raises IndexError
         /\ opt_pc' = "error"
         /\ options' = opts
         /\ opt_result' = Raised("IndexError")
         /\ UNCHANGED <<current_device, devices_to_configure_ds18b20>>
    ELSE /\ current_device' = Last(todo)
         /\ devices_to_configure_ds18b20' = Front(todo)
         /\ options' = opts
         /\ IF Raises(<<_get_device_long_name_from_id(Last(todo))>>)
            THEN /\ opt_result' = Raised("UnboundLocalError")
                 /\ opt_pc' = "error"
            ELSE /\ opt_result' = ds1820b_device_config_form(opts, Last(todo))
                 /\ opt_pc' = "ds1820b_device_config"

\* The condition under which the device-config step goes on to another form.
more_devices_to_configure(todo) == Len(todo) > 0

async_step_ds1820b_device_config(user_input) ==
    IF user_input.given
    THEN LET opts == _update_ds18b20_config_option(
                         options, current_device, user_input.data)
             in_place == HasPrecisionEntries(options)
         IN  /\ precision_shared' = (precision_shared /\ in_place)
             /\ IF more_devices_to_configure(devices_to_configure_ds18b20)
                THEN /\ show_ds1820b_device_config(opts, devices_to_configure_ds18b20)
                     /\ config_entry_options' =
                           IF precision_shared /\ in_place
                           THEN [config_entry_options EXCEPT
                                    ![SENSOR_PRECISION_CONFIG_OPTION] =
                                        opts[SENSOR_PRECISION_CONFIG_OPTION]]
                           ELSE config_entry_options
                ELSE _update_options(opts)
             /\ UNCHANGED <<hub_devices, name_by_user, device_registry,
                            device_list_ds18b20>>
    ELSE /\ show_ds1820b_device_config(options, devices_to_configure_ds18b20)
         /\ UNCHANGED <<config_entry_options, precision_shared, hub_devices,
                        name_by_user, device_registry, device_list_ds18b20>>

\* options["clear_device_config"] after the submission was merged.
clear_requested_nothing_selected(opts) ==
    opts[CLEAR_DEVICE_CONFIG] /\ opts[SENSOR_PRECISION_DEVICE_SELECT_OPTION] = <<>>

clear_requested(opts) == opts[CLEAR_DEVICE_CONFIG]

\* async_step_device_selection entered with self.device_list_ds18b20 =
\* possible_devices.
async_step_device_selection(user_input, possible_devices) ==
    IF user_input.given
    THEN LET opts == _update_options_dict(options, user_input.data)
         IN  IF clear_requested(opts)
             THEN /\ _update_options(EmptyDict)
                  /\ precision_shared' = FALSE
             ELSE LET todo == opts[SENSOR_PRECISION_DEVICE_SELECT_OPTION]
                  IN  IF todo # <<>>
                      THEN /\ show_ds1820b_device_config(opts, todo)
                           /\ UNCHANGED <<config_entry_options, precision_shared>>
                      ELSE /\ _update_options(opts)
                           /\ UNCHANGED precision_shared
    ELSE /\ IF Raises(_get_device_list_with_names(possible_devices))
            THEN /\ opt_result' = Raised("UnboundLocalError")
                 /\ opt_pc' = "error"
            ELSE /\ opt_result' = device_selection_form(options, possible_devices)
                 /\ opt_pc' = "device_selection"
         /\ UNCHANGED <<config_entry_options, options, precision_shared,
                        current_device, devices_to_configure_ds18b20>>

\* The ids of the hub's devices that the options flow can configure.
ds18b20_ids(devices) ==
    LET eligible == SelectSeq(devices,
                        LAMBDA x : x.owserver /\ x.type = "DS18B20")
    IN  [i \in DOMAIN eligible |-> eligible[i].id]

\* The data the init step completes with when it is handed a submission.
init_entry_data_options(user_input) == options

init_entry_data(user_input) == user_input.data

async_step_init(user_input) ==
    LET possible_devices == IF hub_devices # <<>>
                            THEN ds18b20_ids(hub_devices)
                            ELSE device_list_ds18b20
    IN  /\ device_list_ds18b20' = possible_devices
        /\ IF ~device_registry /\ possible_devices # <<>>
           THEN \* None has no async_get_device: the loop over the device
                \* list raises at its first device
                /\ opt_result' = Raised("AttributeError")
                /\ opt_pc' = "error"
                /\ UNCHANGED <<config_entry_options, options, precision_shared,
                               current_device, devices_to_configure_ds18b20>>
           ELSE IF user_input.given
           THEN /\ opt_result' = CreateEntry("", init_entry_data(user_input))
                /\ config_entry_options' = init_entry_data(user_input)
                /\ opt_pc' = "done"
                /\ UNCHANGED <<options, precision_shared, current_device,
                               devices_to_configure_ds18b20>>
           ELSE async_step_device_selection(None, possible_devices)
        /\ UNCHANGED <<hub_devices, name_by_user, device_registry>>

\* ------------------------------------------------ the session's start states
\* Options an earlier session may have left in the configuration entry.
InitialPrecisionMaps ==
    { EmptyDict,
      (DeviceIds[1] :> "9 Bits"),
      (DeviceIds[1] :> "9 Bits") @@ (StaleId :> "12 Bits") }

InitialOptions ==
    {EmptyDict}
    \cup { (CLEAR_DEVICE_CONFIG :> FALSE)
              @@ (SENSOR_PRECISION_DEVICE_SELECT_OPTION :> sel)
           : sel \in { <<>>, <<DeviceIds[1]>>, <<DeviceIds[2], StaleId>> } }
    \cup { (CLEAR_DEVICE_CONFIG :> FALSE)
              @@ (SENSOR_PRECISION_DEVICE_SELECT_OPTION :> sel)
              @@ (SENSOR_PRECISION_CONFIG_OPTION :> pm)
           : sel \in { <<>>, <<DeviceIds[1]>>, <<DeviceIds[2], StaleId>> },
             pm \in InitialPrecisionMaps }

\* Submissions a host may hand to the init step.
InitInputs ==
    { EmptyDict,
      (CLEAR_DEVICE_CONFIG :> TRUE)
          @@ (SENSOR_PRECISION_DEVICE_SELECT_OPTION :> <<DeviceIds[1]>>) }

\* What dr.async_get may hand out: a registry, or none.
DeviceRegistries == BOOLEAN

\* The label helpers are not applied on their own.
Idle_labels ==
    /\ label_pc = "idle"
    /\ label_device = <<>>
    /\ label_name = <<>>
    /\ label_id = <<>>

\* OnewireOptionsFlowHandler.__init__ has run on the configuration entry.
Init_options ==
    /\ config_entry_options \in InitialOptions
    /\ hub_devices \in HubDeviceLists
    /\ device_registry \in DeviceRegistries
    /\ IF device_registry
       THEN name_by_user \in [DS18B20Ids -> UserNames]
       ELSE name_by_user = EmptyDict
    /\ opt_pc = "init"
    /\ options = config_entry_options
    /\ precision_shared = (SENSOR_PRECISION_CONFIG_OPTION \in DOMAIN config_entry_options)
    /\ device_list_ds18b20 = <<>>
    /\ current_device = <<>>
    /\ devices_to_configure_ds18b20 = <<>>
    /\ opt_result = Abort("not_started")
    /\ initial_options = config_entry_options
    /\ init_input = None
    /\ selection_input = None
    /\ visited = <<>>
    /\ answers = <<>>
    /\ committed_from = ""
    /\ Idle_labels

\* ---- observation of the options session
ObserveStep(step) ==
    /\ visited' = IF opt_pc' = "ds1820b_device_config"
                  THEN Append(visited, current_device') ELSE visited
    /\ committed_from' = IF opt_pc' = "done" THEN step ELSE committed_from
    /\ UNCHANGED <<initial_options, label_vars>>

\* ---- the host runs one step of the session
Options_init ==
    /\ UNCHANGED setup_vars
    /\ opt_pc = "init"
    /\ async_step_init(None)
    /\ ObserveStep("init")
    /\ UNCHANGED <<init_input, selection_input, answers>>

Options_init_with_input ==
    /\ UNCHANGED setup_vars
    /\ opt_pc = "init"
    /\ \E d \in InitInputs :
          /\ async_step_init(Some(d))
          /\ init_input' = Some(d)
    /\ ObserveStep("init")
    /\ UNCHANGED <<selection_input, answers>>

Options_device_selection ==
    /\ UNCHANGED setup_vars
    /\ opt_pc = "device_selection"
    /\ \E clear \in BOOLEAN, sel \in Selections(Range(opt_result.choices)) :
          LET d == (CLEAR_DEVICE_CONFIG :> clear)
                      @@ (SENSOR_PRECISION_DEVICE_SELECT_OPTION :> sel)
          IN  /\ async_step_device_selection(Some(d), device_list_ds18b20)
              /\ selection_input' = Some(d)
    /\ ObserveStep("device_selection")
    /\ UNCHANGED <<hub_devices, name_by_user, device_registry,
                   device_list_ds18b20, init_input, answers>>

Options_ds1820b_device_config ==
    /\ UNCHANGED setup_vars
    /\ opt_pc = "ds1820b_device_config"
    /\ \E precision \in PrecisionLabels :
          /\ async_step_ds1820b_device_config(
                 Some((SENSOR_PRECISION_CONFIG_OPTION :> precision)))
          /\ answers' = Append(answers, <<current_device, precision>>)
    /\ ObserveStep("ds1820b_device_config")
    /\ UNCHANGED <<init_input, selection_input>>

Next_options ==
    \/ Options_init
    \/ Options_init_with_input
    \/ Options_device_selection
    \/ Options_ds1820b_device_config

\* ---------------------------------------------------------- specifications
\* The variables of the wizard a specification does not run.
Idle_setup ==
    /\ entries = <<>>
    /\ pc = [f \in Flows |-> "idle"]
    /\ onewire_config = [f \in Flows |-> EmptyDict]
    /\ unique_id = [f \in Flows |-> NoUniqueId]
    /\ step_input = [f \in Flows |-> EmptyDict]
    /\ result = [f \in Flows |-> Abort("not_started")]
    /\ hub_calls = [f \in Flows |-> 0]
    /\ transport = [f \in Flows |-> ""]
    /\ submitted = [f \in Flows |-> EmptyDict]
    /\ dup_at_submit = [f \in Flows |-> FALSE]
    /\ hub_failed = [f \in Flows |-> FALSE]
    /\ last_failed = [f \in Flows |-> EmptyDict]

Idle_session ==
    /\ config_entry_options = EmptyDict
    /\ hub_devices = <<>>
    /\ opt_pc = "idle"
    /\ options = EmptyDict
    /\ precision_shared = FALSE
    /\ device_list_ds18b20 = <<>>
    /\ current_device = <<>>
    /\ devices_to_configure_ds18b20 = <<>>
    /\ opt_result = Abort("not_started")
    /\ initial_options = EmptyDict
    /\ init_input = None
    /\ selection_input = None
    /\ visited = <<>>
    /\ answers = <<>>
    /\ committed_from = ""

Idle_options ==
    /\ Idle_session
    /\ name_by_user = EmptyDict
    /\ device_registry = FALSE

\* The setup wizard: NumFlows flows run interleaved.
Init == Init_setup /\ Idle_options /\ Idle_labels
Next == Next_setup
Spec == Init /\ [][Next]_vars

\* The options wizard: one session on a configuration entry.
InitOptions == Init_options /\ Idle_setup
NextOptions == Next_options
SpecOptions == InitOptions /\ [][NextOptions]_vars

\* ------------------------------------------- the label helpers on their own
\* Longest display name and longest device id, in characters.
MaxNameLen == 2
MaxIdLen == 2

\* The characters of display names and of device ids.
NameAlphabet == {"K", "(", ")"}
IdAlphabet == {"a", "(", ")"}

Strings(alphabet, n) == UNION {[1..k -> alphabet] : k \in 0..n}

\* The display names (<<>>: the user gave none) and the device ids.
LabelNames == Strings(NameAlphabet, MaxNameLen)
LabelIds == Strings(IdAlphabet, MaxIdLen) \ {<<>>}

\* A device id and the registry that is asked for its name.
Init_labels ==
    /\ label_pc = "start"
    /\ label_device \in LabelIds
    /\ device_registry \in DeviceRegistries
    /\ IF device_registry
       THEN name_by_user \in [{label_device} -> LabelNames]
       ELSE name_by_user = EmptyDict
    /\ label_name = <<>>
    /\ label_id = <<>>

Labels_get_device_long_name_from_id ==
    /\ UNCHANGED setup_vars
    /\ label_pc = "start"
    /\ label_name' = _get_device_long_name_from_id(label_device)
    /\ label_pc' = IF Raises(<<label_name'>>) THEN "error" ELSE "named"
    /\ UNCHANGED <<label_device, label_id, options_prog, options_obs>>

Labels_get_device_id_from_long_name ==
    /\ UNCHANGED setup_vars
    /\ label_pc = "named"
    /\ label_id' = _get_device_id_from_long_name(label_name)
    /\ label_pc' = "parsed"
    /\ UNCHANGED <<label_device, label_name, options_prog, options_obs>>

Next_labels ==
    \/ Labels_get_device_long_name_from_id
    \/ Labels_get_device_id_from_long_name

\* A label is computed from a device id and parsed back.
InitLabels == Init_labels /\ Idle_session /\ Idle_setup
NextLabels == Next_labels
SpecLabels == InitLabels /\ [][NextLabels]_vars

\* ======================================================== setup wizard
\* The transport-specific keys of a transport.
TransportKeys(type) ==
    IF type = CONF_TYPE_OWSERVER THEN {CONF_HOST, CONF_PORT} ELSE {CONF_MOUNT_DIR}

\* The form step of a transport.
TransportStep(type) ==
    IF type = CONF_TYPE_OWSERVER THEN "owserver" ELSE "mount_dir"

\* C1: a transport-step submission made while an identical record (same
\* transport, same host and port, or same mount directory) is persisted is
\* rejected as already configured, and no hub operation is issued for it.
C1_DuplicateRejectedBeforeHubCall ==
    \A f \in Flows :
        dup_at_submit[f] =>
            /\ pc[f] = "aborted"
            /\ result[f] = Abort("already_configured")
            /\ hub_calls[f] = 0

C1_Witness ==
    \E f \in Flows :
        /\ dup_at_submit[f]
        /\ transport[f] = CONF_TYPE_OWSERVER
        /\ submitted[f] = DATA_SCHEMA_OWSERVER
        /\ pc[f] = "aborted"

\* C2: no two persisted records carry the same transport and the same
\* transport-specific fields, whatever the interleaving of the flows.
C2_AtMostOneCompletes ==
    \A i, j \in DOMAIN entries :
        i # j => entries[i].data # entries[j].data

\* C3: the record of a completed flow holds the transport chosen at the
\* "user" step and exactly the values of the accepted (last) submission;
\* nothing of an earlier failed submission is left in it.
C3_RecordMatchesAcceptedSubmission ==
    \A i \in DOMAIN entries :
        LET f == entries[i].flow
            data == entries[i].data
        IN  /\ pc[f] = "done"
            /\ result[f].type = "create_entry"
            /\ result[f].data = data
            /\ DOMAIN data = {CONF_TYPE} \cup TransportKeys(transport[f])
            /\ data[CONF_TYPE] = transport[f]
            /\ \A k \in TransportKeys(transport[f]) : data[k] = submitted[f][k]

C3_Witness ==
    \E i \in DOMAIN entries :
        LET f == entries[i].flow
        IN  /\ last_failed[f] # EmptyDict
            /\ \A k \in DOMAIN submitted[f] : last_failed[f][k] # submitted[f][k]

\* C9 (as claimed): every user-input error, a duplicate configuration
\* included, re-renders the form of the same step with an error code and
\* leaves the flow at that step.
C9_EveryErrorRecoverable ==
    \A f \in Flows :
        (dup_at_submit[f] \/ hub_failed[f]) =>
            /\ result[f].type = "form"
            /\ result[f].step_id = TransportStep(transport[f])
            /\ result[f].errors # EmptyDict
            /\ pc[f] = TransportStep(transport[f])

\* C9 (amended): a failed hub validation re-renders the form of the same
\* step with an error code and the flow can be answered again; a duplicate
\* configuration ends the flow with an abort result and no form.
C9_HubErrorsRecoverableDuplicateAborts ==
    \A f \in Flows :
        /\ hub_failed[f] =>
              /\ result[f].type = "form"
              /\ result[f].step_id = TransportStep(transport[f])
              /\ result[f].errors # EmptyDict
              /\ pc[f] = TransportStep(transport[f])
              /\ IF transport[f] = CONF_TYPE_OWSERVER
                 THEN ENABLED HandleStep_owserver(f)
                 ELSE ENABLED HandleStep_mount_dir(f)
        /\ dup_at_submit[f] =>
              /\ result[f].type = "abort"
              /\ pc[f] = "aborted"
              /\ ~ ENABLED HandleStep_owserver(f)
              /\ ~ ENABLED HandleStep_mount_dir(f)

C9_Witness ==
    \E f \in Flows :
        /\ last_failed[f] # EmptyDict
        /\ transport[f] = CONF_TYPE_SYSBUS
        /\ dup_at_submit[f]
        /\ pc[f] = "aborted"

CommittedSelection ==
    /\ opt_pc = "done"
    /\ selection_input.given
    /\ ~selection_input.data[CLEAR_DEVICE_CONFIG]

SelectedLabels == selection_input.data[SENSOR_PRECISION_DEVICE_SELECT_OPTION]

\* The device a label of the device_selection form stands for.
DeviceOfLabel(label) ==
    CHOOSE id \in Range(device_list_ds18b20) :
        _get_device_long_name_from_id(id) = label

\* The sensor_precision dict of an options record (none: the empty dict).
PrecisionOf(opts) ==
    IF SENSOR_PRECISION_CONFIG_OPTION \in DOMAIN opts
    THEN opts[SENSOR_PRECISION_CONFIG_OPTION] ELSE EmptyDict

\* The precision given in the last answer for a device.
LastAnswer(device) ==
    LET i == CHOOSE i \in DOMAIN answers :
                 /\ answers[i][1] = device
                 /\ \A j \in DOMAIN answers : answers[j][1] = device => j <= i
    IN  answers[i][2]

\* C4: a device_selection submission with clear_device_config set completes
\* the session at once with an empty record, whatever was selected and
\* whatever was stored: no device-config form is rendered.
C4_ClearCommitsEmptyRecord ==
    (selection_input.given /\ selection_input.data[CLEAR_DEVICE_CONFIG]) =>
        /\ opt_pc = "done"
        /\ committed_from = "device_selection"
        /\ opt_result = CreateEntry("", EmptyDict)
        /\ config_entry_options = EmptyDict
        /\ options = EmptyDict
        /\ visited = <<>>

C4_Witness ==
    /\ selection_input.given
    /\ selection_input.data[CLEAR_DEVICE_CONFIG]
    /\ Len(SelectedLabels) = NumDS18B20
    /\ PrecisionOf(initial_options) # EmptyDict
    /\ initial_options[SENSOR_PRECISION_DEVICE_SELECT_OPTION] # <<>>
    /\ opt_pc = "done"

\* C5: a session that selected N devices without clearing has rendered
\* exactly N device-config forms when it completes, each selected device
\* being the current device of exactly one of them; with N = 0 it completes
\* from the device_selection step.
C5_EachSelectedDeviceVisitedOnce ==
    CommittedSelection =>
        /\ Len(visited) = Len(SelectedLabels)
        /\ \A n \in DOMAIN SelectedLabels :
              Cardinality({i \in DOMAIN visited :
                              visited[i] = DeviceOfLabel(SelectedLabels[n])}) = 1
        /\ SelectedLabels = <<>> => committed_from = "device_selection"

\* C6 (as claimed): the committed sensor_precision holds exactly N entries,
\* one per selected device, each the precision answered for that device.
C6_ExactlyOneEntryPerSelectedDevice ==
    CommittedSelection =>
        LET pm == PrecisionOf(config_entry_options)
            selected == {DeviceOfLabel(SelectedLabels[n]) : n \in DOMAIN SelectedLabels}
        IN  /\ Cardinality(DOMAIN pm) = Len(SelectedLabels)
            /\ DOMAIN pm = selected
            /\ \A n \in DOMAIN answers : pm[answers[n][1]] = answers[n][2]

\* C6 (amended): the committed sensor_precision holds, for every id of the
\* stored selection list, the precision last answered for that id, and
\* besides these exactly the entries the session started with.
C6_SelectedAnsweredOthersKept ==
    CommittedSelection =>
        LET pm == PrecisionOf(config_entry_options)
            before == PrecisionOf(initial_options)
            stored == Range(config_entry_options[SENSOR_PRECISION_DEVICE_SELECT_OPTION])
        IN  /\ Len(config_entry_options[SENSOR_PRECISION_DEVICE_SELECT_OPTION])
                  = Len(SelectedLabels)
            /\ DOMAIN pm = stored \cup DOMAIN before
            /\ \A id \in stored : pm[id] = LastAnswer(id)
            /\ \A id \in (DOMAIN before) \ stored : pm[id] = before[id]

C6_Witness ==
    /\ CommittedSelection
    /\ Len(SelectedLabels) = NumDS18B20
    /\ StaleId \in DOMAIN PrecisionOf(initial_options)
    /\ StaleId \in DOMAIN PrecisionOf(config_entry_options)
    /\ \A n \in DOMAIN answers : answers[n][2] = "11 Bits"

\* C7: as long as the session has not completed, the options the
\* configuration entry holds are those it held when the session started.
C7_PersistedUnchangedBeforeCommit ==
    opt_pc \in {"init", "device_selection", "ds1820b_device_config"} =>
        config_entry_options = initial_options

\* C8 (as claimed): every completion persists the wizard's current options
\* record, with an empty title.
C8_CommitPersistsOptionsRecord ==
    opt_pc = "done" =>
        /\ opt_result = CreateEntry("", options)
        /\ config_entry_options = options

\* C8 (amended): every completion has an empty title; a completion from the
\* device_selection or a device-config step persists the wizard's current
\* options record; the init step handed a submission persists that
\* submission as it is, leaves the wizard's own record as it was loaded and
\* renders no form.
C8_CommitPersistsRecordOrInitSubmission ==
    opt_pc = "done" =>
        /\ opt_result.type = "create_entry"
        /\ opt_result.title = ""
        /\ config_entry_options = opt_result.data
        /\ committed_from \in {"device_selection", "ds1820b_device_config"} =>
              /\ selection_input.given
              /\ opt_result.data = options
        /\ committed_from = "init" =>
              /\ init_input.given
              /\ opt_result.data = init_input.data
              /\ options = initial_options
              /\ ~selection_input.given
              /\ visited = <<>>

C8_Witness ==
    /\ opt_pc = "done"
    /\ committed_from = "init"
    /\ init_input.given
    /\ init_input.data # initial_options
    /\ PrecisionOf(initial_options) # EmptyDict

\* ======================================================== label helpers
ParenFree(str) == ~Contains(str, "(") /\ ~Contains(str, ")")

\* The display name the registry holds for a device (<<>>: none).
NameOf(device) ==
    IF device \in DOMAIN name_by_user THEN name_by_user[device] ELSE <<>>

\* C11: for a device id and a display name that contain neither "(" nor
\* ")", the label of the id is "name (id)" when the device has a display
\* name and the bare id otherwise, and parsing that label gives the id back.
C11_LabelRoundTrip ==
    (/\ label_pc = "parsed"
     /\ ParenFree(label_device)
     /\ ParenFree(NameOf(label_device))) =>
        /\ label_name = IF NameOf(label_device) # <<>>
                        THEN NameOf(label_device) \o <<" ", "(">>
                                 \o label_device \o <<")">>
                        ELSE label_device
        /\ label_id = label_device

C11_Witness ==
    /\ label_pc = "parsed"
    /\ ParenFree(label_device)
    /\ Len(label_device) = MaxIdLen
    /\ NameOf(label_device) # <<>>
    /\ ParenFree(NameOf(label_device))
    /\ label_name # label_device
    /\ label_id = label_device

\* ====================================================== options wizard (2)
\* The ds18b20_device_selection list of an options record (none: empty).
SelectionOf(opts) ==
    IF SENSOR_PRECISION_DEVICE_SELECT_OPTION \in DOMAIN opts
    THEN opts[SENSOR_PRECISION_DEVICE_SELECT_OPTION] ELSE <<>>

\* C12: once the device_selection form was submitted, the wizard's record
\* holds in ds18b20_device_selection only ids of the DS18B20 device list
\* loaded by the init step, and so does every committed record, whatever
\* display names the devices carry.
C12_SelectionWithinHubList ==
    /\ selection_input.given =>
          Range(SelectionOf(options)) \subseteq Range(device_list_ds18b20)
    /\ opt_pc = "done" =>
          Range(SelectionOf(config_entry_options))
              \subseteq Range(device_list_ds18b20)

\* C13: no record the options wizard persists, from whichever step it
\* completes, has clear_device_config set.
C13_ClearNeverPersistedTrue ==
    opt_pc = "done" =>
        /\ opt_result.type = "create_entry"
        /\ CLEAR_DEVICE_CONFIG \in DOMAIN opt_result.data =>
              ~opt_result.data[CLEAR_DEVICE_CONFIG]
        /\ CLEAR_DEVICE_CONFIG \in DOMAIN config_entry_options =>
              ~config_entry_options[CLEAR_DEVICE_CONFIG]

\* C14: when no device registry is available the session still runs: once
\* the init step has run the wizard shows a form or has completed, never
\* having raised, and the labels it offers are the raw device ids.
C14_MissingRegistryDegradesToRawIds ==
    (~device_registry /\ opt_pc # "init") =>
        /\ opt_pc \in {"device_selection", "ds1820b_device_config", "done"}
        /\ opt_result.type # "error"
        /\ opt_pc = "device_selection" =>
              opt_result.choices = device_list_ds18b20
        /\ opt_pc = "ds1820b_device_config" =>
              opt_result.sens_id = current_device

\* C15: after a device_selection submission that did not ask to clear, the
\* device-config forms come in stack order of the stored selection list
\* [d1, ..., dN]: the k-th form is for d(N-k+1); the k-th answer is stored
\* under the device of the k-th form; the session completes after N forms.
C15_DeviceConfigInStackOrder ==
    (selection_input.given /\ ~selection_input.data[CLEAR_DEVICE_CONFIG]) =>
        LET stored == SelectionOf(options)
            N == Len(stored)
        IN  /\ Len(visited) <= N
            /\ \A k \in DOMAIN visited : visited[k] = stored[N - k + 1]
            /\ \A k \in DOMAIN answers :
                  /\ k \in DOMAIN visited
                  /\ answers[k][1] = visited[k]
                  /\ visited[k] \in DOMAIN PrecisionOf(options)
                  /\ PrecisionOf(options)[visited[k]] = LastAnswer(visited[k])
            /\ opt_pc = "ds1820b_device_config" =>
                  /\ current_device = visited[Len(visited)]
                  /\ Len(answers) = Len(visited) - 1
                  /\ devices_to_configure_ds18b20 = SubSeq(stored, 1, N - Len(visited))
            /\ opt_pc = "done" => Len(visited) = N /\ Len(answers) = N

C15_Witness ==
    /\ selection_input.given
    /\ ~selection_input.data[CLEAR_DEVICE_CONFIG]
    /\ opt_pc = "done"
    /\ Len(SelectionOf(options)) = NumDS18B20
    /\ visited[1] = SelectionOf(options)[NumDS18B20]
    /\ visited[NumDS18B20] = SelectionOf(options)[1]
    /\ visited[1] # visited[NumDS18B20]
    /\ answers[1][2] # answers[NumDS18B20][2]
    /\ PrecisionOf(options)[visited[1]] = answers[1][2]

\* ==================================================== label helpers (2)
\* The rule for reading a label: a label without "(" is the id; otherwise
\* the id is what stands strictly between the first "(" and the trailing ")".
BetweenFirstParenAndTrailing(label) ==
    IF ~Contains(label, "(")
    THEN label
    ELSE LET first == CHOOSE i \in DOMAIN label :
                          label[i] = "(" /\ \A j \in 1..(i - 1) : label[j] # "("
         IN  SubSeq(label, first + 1, Len(label) - 1)

\* C16: parsing a label gives the label itself when it holds no "(", and
\* otherwise what stands strictly between its first "(" and its trailing
\* ")", also when the id or the display name hold further parentheses.
C16_ParsedIdFollowsLabelRule ==
    (/\ label_pc = "parsed"
     /\ Contains(label_name, "(") => Last(label_name) = ")") =>
        label_id = BetweenFirstParenAndTrailing(label_name)

\* ====================================================== options wizard (3)
\* C17: the preselection of the device_selection form holds exactly the
\* labels of the devices of the live DS18B20 list whose id is in the stored
\* ds18b20_device_selection: it is among the offered choices, a stored id
\* that is not live is left out, every stored id that is live is in it, and
\* it is empty when nothing is stored.
C17_PreselectionIsStoredLiveDevices ==
    opt_pc = "device_selection" =>
        LET stored == Range(SelectionOf(options))
            live == Range(device_list_ds18b20)
        IN  /\ Range(opt_result.default_selection) \subseteq Range(opt_result.choices)
            /\ Range(opt_result.default_selection) =
                   {_get_device_long_name_from_id(d) : d \in live \cap stored}
            /\ stored = {} => opt_result.default_selection = <<>>

\* The device was given an answer earlier in the session.
Answered(device) == \E i \in DOMAIN answers : answers[i][1] = device

\* C18: the default a device-config form offers is the precision stored for
\* its device: the one answered for it earlier in the session, else the one
\* the record held when the session started, else "Default" (no
\* sensor_precision map, an empty one, or no entry for the device).
C18_DefaultIsStoredPrecision ==
    opt_pc = "ds1820b_device_config" =>
        /\ opt_result.default_precision =
               IF Answered(current_device)
               THEN LastAnswer(current_device)
               ELSE IF current_device \in DOMAIN PrecisionOf(initial_options)
               THEN PrecisionOf(initial_options)[current_device]
               ELSE "Default"
        /\ opt_result.default_precision =
               IF current_device \in DOMAIN PrecisionOf(options)
               THEN PrecisionOf(options)[current_device]
               ELSE "Default"

C18_Witness ==
    /\ opt_pc = "ds1820b_device_config"
    /\ Len(visited) = NumDS18B20
    /\ Len(answers) = NumDS18B20 - 1
    /\ current_device \in DOMAIN PrecisionOf(initial_options)
    /\ opt_result.default_precision = "9 Bits"
    /\ answers[1][2] = "12 Bits"

\* clear_device_config was submitted at the device_selection form or to the
\* init step.
ClearSubmitted ==
    \/ selection_input.given /\ selection_input.data[CLEAR_DEVICE_CONFIG]
    \/ /\ init_input.given
       /\ CLEAR_DEVICE_CONFIG \in DOMAIN init_input.data
       /\ init_input.data[CLEAR_DEVICE_CONFIG]

\* The sensor_precision entry of a device is the same in two records:
\* present in both with the same label, or absent in both.
SameEntry(id, before, after) ==
    /\ (id \in DOMAIN PrecisionOf(before)) = (id \in DOMAIN PrecisionOf(after))
    /\ id \in DOMAIN PrecisionOf(before) =>
          PrecisionOf(before)[id] = PrecisionOf(after)[id]

\* The devices whose entry the session may have touched or held.
KnownIds ==
    DOMAIN PrecisionOf(initial_options) \cup DOMAIN PrecisionOf(config_entry_options)

\* C19 (as claimed): unless clear_device_config is submitted, the committed
\* sensor_precision entry of every device that was not the current device
\* of a device-config submission is the entry the session started with.
C19_UnconfiguredEntriesUnchanged ==
    (opt_pc = "done" /\ ~ClearSubmitted) =>
        \A id \in KnownIds :
            ~Answered(id) => SameEntry(id, initial_options, config_entry_options)

\* C19 (amended): unless clear_device_config is submitted, a session that
\* completes from the device_selection or a device-config step leaves the
\* entries of the devices it did not configure as they were; a session the
\* init step completes commits the sensor_precision of its submission.
C19_UnconfiguredEntriesKeptUnlessInitShortcut ==
    (opt_pc = "done" /\ ~ClearSubmitted) =>
        /\ committed_from \in {"device_selection", "ds1820b_device_config"} =>
              \A id \in KnownIds :
                  ~Answered(id) =>
                      SameEntry(id, initial_options, config_entry_options)
        /\ committed_from = "init" =>
              /\ answers = <<>>
              /\ PrecisionOf(config_entry_options) = PrecisionOf(init_input.data)

C19_Witness ==
    /\ opt_pc = "done"
    /\ ~ClearSubmitted
    /\ committed_from = "ds1820b_device_config"
    /\ Answered(DeviceIds[2])
    /\ ~Answered(DeviceIds[1])
    /\ PrecisionOf(initial_options) = (DeviceIds[1] :> "9 Bits") @@ (StaleId :> "12 Bits")
    /\ PrecisionOf(config_entry_options)[DeviceIds[1]] = "9 Bits"
    /\ PrecisionOf(config_entry_options)[StaleId] = "12 Bits"
    /\ PrecisionOf(config_entry_options)[DeviceIds[2]] = "10 Bits"

\* ==================================================== setup wizard (2)
\* A record is of one transport: it holds the transport, that transport's
\* fields and no other, and is titled by the host or the mount directory.
TransportConsistent(title, data) ==
    /\ CONF_TYPE \in DOMAIN data
    /\ data[CONF_TYPE] \in {CONF_TYPE_OWSERVER, CONF_TYPE_SYSBUS}
    /\ data[CONF_TYPE] = CONF_TYPE_OWSERVER =>
          /\ DOMAIN data = {CONF_TYPE, CONF_HOST, CONF_PORT}
          /\ title = data[CONF_HOST]
    /\ data[CONF_TYPE] = CONF_TYPE_SYSBUS =>
          /\ DOMAIN data = {CONF_TYPE, CONF_MOUNT_DIR}
          /\ title = data[CONF_MOUNT_DIR]

\* C20: every record the setup wizard persists is of one transport (an
\* OWServer record has host and port and no mount_dir and is titled by its
\* host, a SysBus record has mount_dir and neither host nor port and is
\* titled by its mount directory), and no flow ever holds fields of both
\* transports in its pending configuration.
C20_RecordTransportConsistent ==
    /\ \A i \in DOMAIN entries :
          TransportConsistent(entries[i].title, entries[i].data)
    /\ \A f \in Flows :
          /\ pc[f] = "done" =>
                /\ result[f].type = "create_entry"
                /\ TransportConsistent(result[f].title, result[f].data)
          /\ ~(/\ DOMAIN onewire_config[f] \cap {CONF_HOST, CONF_PORT} # {}
               /\ CONF_MOUNT_DIR \in DOMAIN onewire_config[f])

C20_Witness ==
    \E i, j \in DOMAIN entries :
        /\ entries[i].data[CONF_TYPE] = CONF_TYPE_OWSERVER
        /\ entries[i].title = "gateway2"
        /\ last_failed[entries[i].flow] # EmptyDict
        /\ entries[j].data[CONF_TYPE] = CONF_TYPE_SYSBUS
        /\ entries[j].title = "/mnt/1wire/"
        /\ pc[entries[j].flow] = "done"

====
